---- MODULE Spec2Model ----
(***************************************************************************)
(* Model of src/src/address_space.rs: the AddressSpace interval manager    *)
(* (add_mapping, add_mapping_at, remove_mapping, get_source_for_addr) and  *)
(* the FlagBuilder value type.  Addresses are usize; the model keeps the   *)
(* width (all sums are taken modulo USIZE_MAX + 1) on a scaled-down word.  *)
(* An overflowing usize sum panics when the build has overflow checks      *)
(* (debug profile) and wraps otherwise (release profile): the profile is   *)
(* chosen nondeterministically in Init.                                    *)
(***************************************************************************)
EXTENDS Integers, Sequences, FiniteSets

\* ---- bounds ----
\* usize::MAX of the scaled-down machine word
USIZE_MAX == 3
\* largest span a caller passes
MaxSpan == 3
\* largest offset a caller passes
MaxOffset == 1
\* cap on the number of entries (guards of the two insert actions)
MaxEntries == 2

VirtualAddress == 0..USIZE_MAX
Spans == 0..MaxSpan
Offsets == 0..MaxOffset
\* the DataSource handles: opaque to the address space, which stores and
\* returns them and never inspects them, so two distinct ones are enough
Sources == {1, 2}

\* the (source, offset) pairs a caller maps: source s is mapped from offset
\* (s - 1) mod (MaxOffset + 1)
Backings == {[source |-> s, offset |-> (s - 1) % (MaxOffset + 1)] : s \in Sources}

\* ---- FlagBuilder (lines 147-156, 185-228) ----
FlagBuilder == [read : BOOLEAN, write : BOOLEAN, execute : BOOLEAN,
                cow : BOOLEAN, private : BOOLEAN, shared : BOOLEAN]

FlagBuilder_new == [read |-> FALSE, write |-> FALSE, execute |-> FALSE,
                    cow |-> FALSE, private |-> FALSE, shared |-> FALSE]

FlagBuilder_read == [FlagBuilder_new EXCEPT !.read = TRUE]

FlagBuilder_write == [FlagBuilder_new EXCEPT !.write = TRUE]

FlagBuilder_execute == [FlagBuilder_new EXCEPT !.execute = TRUE]

\* the six flags of FlagBuilder
FlagNames == {"read", "write", "execute", "cow", "private", "shared"}

\* flag! (lines 167-172): the constructor that turns on only flag f
flag(f) == [FlagBuilder_new EXCEPT ![f] = TRUE]

\* flag! (lines 176-181): the toggler of flag f
toggle(self, f) == [self EXCEPT ![f] = ~self[f]]

\* and with one field combined by && instead of ||
FlagBuilder_and_cow_conj(self, other) ==
  [read    |-> self.read \/ other.read,
   write   |-> self.write \/ other.write,
   execute |-> self.execute \/ other.execute,
   cow     |-> self.cow /\ other.cow,
   private |-> self.private \/ other.private,
   shared  |-> self.shared \/ other.shared]

FlagBuilder_and(self, other) ==
  [read    |-> self.read \/ other.read,
   write   |-> self.write \/ other.write,
   execute |-> self.execute \/ other.execute,
   cow     |-> self.cow \/ other.cow,
   private |-> self.private \/ other.private,
   shared  |-> self.shared \/ other.shared]

\* but_not with a field taken from the wrong flag of other
FlagBuilder_but_not_wrong_field(self, other) ==
  [read    |-> self.read /\ ~other.read,
   write   |-> self.write /\ ~other.write,
   execute |-> self.execute /\ ~other.execute,
   cow     |-> self.cow /\ ~other.cow,
   private |-> self.private /\ ~other.private,
   shared  |-> self.shared /\ ~other.private]

FlagBuilder_but_not(self, other) ==
  [read    |-> self.read /\ ~other.read,
   write   |-> self.write /\ ~other.write,
   execute |-> self.execute /\ ~other.execute,
   cow     |-> self.cow /\ ~other.cow,
   private |-> self.private /\ ~other.private,
   shared  |-> self.shared /\ ~other.shared]

\* access types a caller of get_source_for_addr passes
AccessTypes == {FlagBuilder_new, FlagBuilder_read, FlagBuilder_write,
                FlagBuilder_execute,
                FlagBuilder_and(FlagBuilder_read, FlagBuilder_write)}

\* ---- MapEntry (lines 8-13) ----
MapEntry == [source : Sources, offset : Offsets, span : Spans, addr : VirtualAddress]

\* ---- usize arithmetic ----
\* the value a usize sum has when it is not checked
Wrap(n) == n % (USIZE_MAX + 1)

\* a usize sum that does not fit the word
Overflows(a, b) == a + b > USIZE_MAX

\* ---- state ----
VARIABLES
  mappings,         \* AddressSpace.mappings, front to back
  overflow_checks,  \* TRUE: overflowing sums panic; FALSE: they wrap
  op,               \* the last call and its arguments
  result,           \* what the last call returned
  pre,              \* mappings before the last call
  flags_self,       \* FlagBuilder: the receiver of the last flag operation
  flags_other,      \* FlagBuilder: the argument of the last flag operation
  flags_out,        \* FlagBuilder: the value the last flag operation returned
  flags_op          \* the last flag operation and the flag it names

flagvars == <<flags_self, flags_other, flags_out, flags_op>>

spacevars == <<mappings, overflow_checks, op, result, pre>>

vars == <<mappings, overflow_checks, op, result, pre,
          flags_self, flags_other, flags_out, flags_op>>

\* ---- error values (the &str of each Err) ----
ErrNoSpace == "no space for that map"
ErrNoMap == "that map doesn't exist"
ErrPermissions == "wrong permissions"
ErrNotMapped == "that address isn't mapped"

NoCall == [name |-> "new", source |-> 1, offset |-> 0, span |-> 0,
           start |-> 0, addr |-> 0, access |-> FlagBuilder_new]

NoFlagOp == [name |-> "new", flag |-> "read"]

NoResult == [kind |-> "None", err |-> "", addr |-> 0, source |-> 1, offset |-> 0]

Ok0 == [NoResult EXCEPT !.kind = "Ok"]

Err(msg) == [NoResult EXCEPT !.kind = "Err", !.err = msg]

Panic == [NoResult EXCEPT !.kind = "Panic"]

\* ---- add_mapping_at (lines 59-87) ----
\* line 66: position of the first entry with addr + span >= start, 0 when none

\* find_next_map with the half-open comparison addr + span > start
RECURSIVE find_next_map_strict(_, _, _)
find_next_map_strict(m, i, start) ==
  IF i > Len(m) THEN 0
  ELSE IF Wrap(m[i].addr + m[i].span) > start THEN i
  ELSE find_next_map_strict(m, i + 1, start)

RECURSIVE find_next_map(_, _, _)
find_next_map(m, i, start) ==
  IF i > Len(m) THEN 0
  ELSE IF Wrap(m[i].addr + m[i].span) >= start THEN i
  ELSE find_next_map(m, i + 1, start)

\* line 66: some sum addr + span the search evaluated does not fit
next_map_overflows(m, idx) ==
  \E i \in 1..(IF idx = 0 THEN Len(m) ELSE idx) : Overflows(m[i].addr, m[i].span)

\* add_mapping_at that forgets to re-append the back half after the splice
add_mapping_at_lost_back(m, source, offset, span, start) ==
  LET idx == find_next_map(m, 1, start)
      entry == [source |-> source, offset |-> offset, span |-> span, addr |-> start]
  IN IF overflow_checks /\ next_map_overflows(m, idx)
       THEN [res |-> Panic, mappings |-> m]
     ELSE IF idx = 0
       THEN IF USIZE_MAX - span <= start
              THEN [res |-> Err(ErrNoSpace), mappings |-> m]
              ELSE [res |-> Ok0, mappings |-> Append(m, entry)]
     ELSE IF overflow_checks /\ Overflows(start, span)
       THEN [res |-> Panic, mappings |-> m]
     ELSE IF m[idx].addr <= Wrap(start + span)
       THEN [res |-> Err(ErrNoSpace), mappings |-> m]
     ELSE [res |-> Ok0, mappings |-> SubSeq(m, 1, idx - 1) \o <<entry>>]

add_mapping_at(m, source, offset, span, start) ==
  LET idx == find_next_map(m, 1, start)
      entry == [source |-> source, offset |-> offset, span |-> span, addr |-> start]
  IN IF overflow_checks /\ next_map_overflows(m, idx)
       THEN [res |-> Panic, mappings |-> m]
     ELSE IF idx = 0
       THEN IF USIZE_MAX - span <= start
              THEN [res |-> Err(ErrNoSpace), mappings |-> m]
              ELSE [res |-> Ok0, mappings |-> Append(m, entry)]
     ELSE IF overflow_checks /\ Overflows(start, span)
       THEN [res |-> Panic, mappings |-> m]
     ELSE IF m[idx].addr <= Wrap(start + span)
       THEN [res |-> Err(ErrNoSpace), mappings |-> m]
     ELSE [res |-> Ok0,
           mappings |-> SubSeq(m, 1, idx - 1) \o <<entry>> \o SubSeq(m, idx, Len(m))]

\* ---- add_mapping (lines 45-53) ----
\* line 51: the fold over the entries; ovf records a sum that did not fit

\* fold_spot that moves the candidate one address past the end of an entry
RECURSIVE fold_spot_past_end(_, _, _, _, _)
fold_spot_past_end(m, i, spot, span, ovf) ==
  IF i > Len(m) THEN [spot |-> spot, ovf |-> ovf]
  ELSE IF m[i].addr > Wrap(spot + span)
    THEN fold_spot_past_end(m, i + 1, spot, span, ovf \/ Overflows(spot, span))
  ELSE fold_spot_past_end(m, i + 1, Wrap(m[i].addr + m[i].span + 1), span,
                          ovf \/ Overflows(spot, span)
                              \/ Overflows(m[i].addr, m[i].span + 1))

RECURSIVE fold_spot(_, _, _, _, _)
fold_spot(m, i, spot, span, ovf) ==
  IF i > Len(m) THEN [spot |-> spot, ovf |-> ovf]
  ELSE IF m[i].addr > Wrap(spot + span)
    THEN fold_spot(m, i + 1, spot, span, ovf \/ Overflows(spot, span))
  ELSE fold_spot(m, i + 1, Wrap(m[i].addr + m[i].span), span,
                 ovf \/ Overflows(spot, span) \/ Overflows(m[i].addr, m[i].span))

add_mapping(m, source, offset, span) ==
  LET f == fold_spot(m, 1, 0, span, FALSE)
      r == add_mapping_at(m, source, offset, span, f.spot)
  IN IF overflow_checks /\ f.ovf
       THEN [res |-> Panic, mappings |-> m]
     ELSE IF r.res.kind = "Ok"
       THEN [res |-> [Ok0 EXCEPT !.addr = f.spot], mappings |-> r.mappings]
     ELSE r


\* ---- remove_mapping (lines 93-108) ----
\* line 98: position of the first entry with addr == start, 0 when none

\* find_to_delete that takes the entry whose interval covers start
RECURSIVE find_to_delete_covering(_, _, _)
find_to_delete_covering(m, i, start) ==
  IF i > Len(m) THEN 0
  ELSE IF m[i].addr <= start /\ start <= m[i].addr + m[i].span THEN i
  ELSE find_to_delete_covering(m, i + 1, start)

RECURSIVE find_to_delete(_, _, _)
find_to_delete(m, i, start) ==
  IF i > Len(m) THEN 0
  ELSE IF m[i].addr = start THEN i
  ELSE find_to_delete(m, i + 1, start)


\* remove_mapping that splits and pops before it looks at the search result
remove_mapping_pop_first(m, source, start) ==
  LET idx == find_to_delete(m, 1, start)
  IN IF idx = 0
       THEN [res |-> Err(ErrNoMap),
             mappings |-> IF m = << >> THEN m ELSE Tail(m)]
       ELSE [res |-> Ok0,
             mappings |-> SubSeq(m, 1, idx - 1) \o SubSeq(m, idx + 1, Len(m))]

\* remove_mapping that refuses a source other than the entry's
remove_mapping_checks_source(m, source, start) ==
  LET idx == find_to_delete(m, 1, start)
  IN IF idx = 0 \/ m[idx].source /= source
       THEN [res |-> Err(ErrNoMap), mappings |-> m]
       ELSE [res |-> Ok0,
             mappings |-> SubSeq(m, 1, idx - 1) \o SubSeq(m, idx + 1, Len(m))]

remove_mapping(m, source, start) ==
  LET idx == find_to_delete(m, 1, start)
  IN IF idx = 0
       THEN [res |-> Err(ErrNoMap), mappings |-> m]
       ELSE [res |-> Ok0,
             mappings |-> SubSeq(m, 1, idx - 1) \o SubSeq(m, idx + 1, Len(m))]

\* ---- get_source_for_addr (lines 116-131) ----
\* line 124: position of the first entry with addr <= a <= addr + span, 0 when none
RECURSIVE find_map(_, _, _)
find_map(m, i, a) ==
  IF i > Len(m) THEN 0
  ELSE IF m[i].addr <= a /\ a <= Wrap(m[i].addr + m[i].span) THEN i
  ELSE find_map(m, i + 1, a)

\* line 124: the sum is evaluated for the entries with addr <= a up to the one found
find_map_overflows(m, idx, a) ==
  \E i \in 1..(IF idx = 0 THEN Len(m) ELSE idx) :
     m[i].addr <= a /\ Overflows(m[i].addr, m[i].span)

get_source_for_addr(m, a, access_type) ==
  LET idx == find_map(m, 1, a)
  IN IF access_type.read THEN Err(ErrPermissions)
     ELSE IF overflow_checks /\ find_map_overflows(m, idx, a) THEN Panic
     ELSE IF idx = 0 THEN Err(ErrNotMapped)
     ELSE [Ok0 EXCEPT !.source = m[idx].source, !.offset = m[idx].offset]

\* ---- the state machine ----
Init ==
  /\ mappings = << >>
  /\ overflow_checks \in BOOLEAN
  /\ op = NoCall
  /\ result = NoResult
  /\ pre = << >>
  /\ flags_self = FlagBuilder_new
  /\ flags_other = FlagBuilder_new
  /\ flags_out = FlagBuilder_new
  /\ flags_op = NoFlagOp

\* a panic ends the program
Running == result.kind /= "Panic"

Call_add_mapping ==
  /\ Running
  /\ Len(mappings) < MaxEntries
  /\ \E b \in Backings, span \in Spans :
       LET source == b.source
           offset == b.offset
           r == add_mapping(mappings, source, offset, span)
       IN /\ mappings' = r.mappings
          /\ result' = r.res
          /\ op' = [NoCall EXCEPT !.name = "add_mapping", !.source = source,
                                  !.offset = offset, !.span = span]
  /\ pre' = mappings
  /\ UNCHANGED <<overflow_checks, flagvars>>

Call_add_mapping_at ==
  /\ Running
  /\ Len(mappings) < MaxEntries
  /\ \E b \in Backings, span \in Spans, start \in VirtualAddress :
       LET source == b.source
           offset == b.offset
           r == add_mapping_at(mappings, source, offset, span, start)
       IN /\ mappings' = r.mappings
          /\ result' = r.res
          /\ op' = [NoCall EXCEPT !.name = "add_mapping_at", !.source = source,
                                  !.offset = offset, !.span = span, !.start = start]
  /\ pre' = mappings
  /\ UNCHANGED <<overflow_checks, flagvars>>

Call_remove_mapping ==
  /\ Running
  /\ \E source \in Sources, start \in VirtualAddress :
       LET r == remove_mapping(mappings, source, start)
       IN /\ mappings' = r.mappings
          /\ result' = r.res
          /\ op' = [NoCall EXCEPT !.name = "remove_mapping", !.source = source,
                                  !.start = start]
  /\ pre' = mappings
  /\ UNCHANGED <<overflow_checks, flagvars>>

Call_get_source_for_addr ==
  /\ Running
  /\ \E a \in VirtualAddress, access_type \in AccessTypes :
       /\ result' = get_source_for_addr(mappings, a, access_type)
       /\ op' = [NoCall EXCEPT !.name = "get_source_for_addr", !.addr = a,
                               !.access = access_type]
  /\ pre' = mappings
  /\ UNCHANGED <<mappings, overflow_checks, flagvars>>

Next ==
  \/ Call_add_mapping
  \/ Call_add_mapping_at
  \/ Call_remove_mapping
  \/ Call_get_source_for_addr

Spec == Init /\ [][Next]_vars

\* ---- FlagBuilder as a state machine of its own ----
\* the receiver and the argument range over all flag values; the address
\* space stays as constructed
InitFlags ==
  /\ mappings = << >>
  /\ overflow_checks = FALSE
  /\ op = NoCall
  /\ result = NoResult
  /\ pre = << >>
  /\ flags_self \in FlagBuilder
  /\ flags_other \in FlagBuilder
  /\ flags_out = FlagBuilder_new
  /\ flags_op = NoFlagOp

Call_flag ==
  /\ \E f \in FlagNames :
       /\ flags_out' = flag(f)
       /\ flags_op' = [name |-> "flag", flag |-> f]
  /\ UNCHANGED <<spacevars, flags_self, flags_other>>

Call_toggle ==
  /\ \E f \in FlagNames :
       /\ flags_out' = toggle(flags_self, f)
       /\ flags_op' = [name |-> "toggle", flag |-> f]
  /\ UNCHANGED <<spacevars, flags_self, flags_other>>

Call_and ==
  /\ flags_out' = FlagBuilder_and(flags_self, flags_other)
  /\ flags_op' = [NoFlagOp EXCEPT !.name = "and"]
  /\ UNCHANGED <<spacevars, flags_self, flags_other>>

Call_but_not ==
  /\ flags_out' = FlagBuilder_but_not(flags_self, flags_other)
  /\ flags_op' = [NoFlagOp EXCEPT !.name = "but_not"]
  /\ UNCHANGED <<spacevars, flags_self, flags_other>>

NextFlags ==
  \/ Call_flag
  \/ Call_toggle
  \/ Call_and
  \/ Call_but_not

SpecFlags == InitFlags /\ [][NextFlags]_vars

TypeOK ==
  /\ mappings \in Seq(MapEntry)
  /\ Len(mappings) <= MaxEntries
  /\ overflow_checks \in BOOLEAN
  /\ result.kind \in {"None", "Ok", "Err", "Panic"}

\* ---- vocabulary of the properties ----
\* the half-open intervals [addr, addr+span) of e and f share an address
Intersects(e, f) ==
  /\ e.span > 0
  /\ f.span > 0
  /\ e.addr < f.addr + f.span
  /\ f.addr < e.addr + e.span

\* address x lies in the half-open interval [addr, addr+span) of e
Contains(e, x) == e.addr <= x /\ x < e.addr + e.span

\* the interval requested by the last call
Requested == [addr |-> op.start, span |-> op.span]

\* [a, a+span) lies in the address range, with the margin the guard of
\* line 68 asks for (start + span < usize::MAX), and meets no entry of m
Fits(m, a, span) ==
  /\ a + span < USIZE_MAX
  /\ \A i \in DOMAIN m : ~Intersects([addr |-> a, span |-> span], m[i])

\* C1: no two distinct entries present have intersecting intervals
\* [addr, addr+span), after any sequence of calls.
C1_NoOverlap ==
  \A i, j \in DOMAIN mappings :
     i /= j => ~Intersects(mappings[i], mappings[j])

\* C2: the mappings sequence is sorted ascending by addr, each entry's addr
\* less than the addr of the entry that follows it.
C2_Sorted ==
  \A i \in 1..(Len(mappings) - 1) : mappings[i].addr < mappings[i + 1].addr

\* C3: whenever some address a exists where [a, a+span) fits without
\* meeting an existing mapping, add_mapping succeeds and returns the lowest
\* such a.
C3_FirstFit ==
  op.name = "add_mapping" =>
    LET S == {a \in VirtualAddress : Fits(pre, a, op.span)}
    IN S /= {} =>
         /\ result.kind = "Ok"
         /\ result.addr \in S
         /\ \A a \in S : result.addr <= a

\* C4: add_mapping_at fails exactly when start+span overflows the address
\* range or [start, start+span) intersects an existing entry; a request that
\* is only boundary-adjacent to existing entries succeeds.
C4_FailsExactlyOnOverflowOrOverlap ==
  op.name = "add_mapping_at" =>
    ((result.kind /= "Ok") <=>
       (\/ Overflows(op.start, op.span)
        \/ \E i \in DOMAIN pre : Intersects(Requested, pre[i])))

\* C5: add_mapping_at for an interval that intersects an existing entry's
\* interval returns an error and leaves the mappings as they were.
C5_OverlapRejected ==
  (/\ op.name = "add_mapping_at"
   /\ \E i \in DOMAIN pre : Intersects(Requested, pre[i]))
  => (result.kind = "Err" /\ mappings = pre)

\* C6: add_mapping_at with a nonzero span and start+span above the maximum
\* address returns the insufficient-space error and inserts nothing, in
\* every state of the address space.
C6_OverflowGuard ==
  (/\ op.name = "add_mapping_at"
   /\ op.span > 0
   /\ Overflows(op.start, op.span))
  => (result = Err(ErrNoSpace) /\ mappings = pre)

\* C7: translating an address x inside an entry (addr a, span s, offset o)
\* with an access that passes the permission check returns that entry's
\* source and the offset o + (x - a).
C7_TranslationOffset ==
  (op.name = "get_source_for_addr" /\ result.err /= ErrPermissions) =>
    \A i \in DOMAIN mappings :
       Contains(mappings[i], op.addr) =>
         /\ result.kind = "Ok"
         /\ result.source = mappings[i].source
         /\ result.offset = mappings[i].offset + (op.addr - mappings[i].addr)

\* C8: translating an address that lies in no entry's half-open interval
\* returns the unmapped-address error, whatever access is requested.
C8_TranslationContainment ==
  (/\ op.name = "get_source_for_addr"
   /\ \A i \in DOMAIN mappings : ~Contains(mappings[i], op.addr))
  => result = Err(ErrNotMapped)

\* C9: translating an address inside a mapping is refused with the
\* permissions error when the requested access has write set and succeeds
\* when the requested access is read only.  (MapEntry records no capability
\* and no insert takes one, so the property is stated of every mapping.)
C9_PermissionEnforcement ==
  (/\ op.name = "get_source_for_addr"
   /\ \E i \in DOMAIN mappings : Contains(mappings[i], op.addr))
  => /\ op.access.write => result = Err(ErrPermissions)
     /\ op.access = FlagBuilder_read => result.kind = "Ok"

\* C10: a successful add_mapping_at at address A immediately followed by
\* remove_mapping at A succeeds and restores the mappings to their value
\* before the insert.
C10_RoundTrip ==
  [][(/\ op.name = "add_mapping_at"
      /\ result.kind = "Ok"
      /\ op'.name = "remove_mapping"
      /\ op'.start = op.start)
     => (result'.kind = "Ok" /\ mappings' = pre)]_vars

\* sequence s without its i-th element
Without(s, i) == SubSeq(s, 1, i - 1) \o SubSeq(s, i + 1, Len(s))

\* the positions of pre whose entry starts at the start of the last call
StartsAt == {i \in DOMAIN pre : pre[i].addr = op.start}

\* C11: remove_mapping succeeds and removes exactly one entry with
\* addr == start, the others staying in their order, when such an entry
\* exists; otherwise (also when start lies strictly inside an entry) it
\* returns the no-such-mapping error.
C11_RemoveExact ==
  op.name = "remove_mapping" =>
    IF StartsAt /= {}
      THEN /\ result.kind = "Ok"
           /\ \E i \in StartsAt : mappings = Without(pre, i)
      ELSE result = Err(ErrNoMap)

\* a removal of the first of two entries succeeded and kept the second
C11_Witness ==
  /\ op.name = "remove_mapping"
  /\ result.kind = "Ok"
  /\ Len(pre) = 2
  /\ pre[1].addr = op.start
  /\ mappings = <<pre[2]>>

\* C12: a successful add_mapping returning a, or add_mapping_at with start
\* a, leaves an entry with addr a and the supplied source, offset and span
\* in the mappings, and every entry present before is still there unchanged.
C12_AddsExactlyOne ==
  (op.name \in {"add_mapping", "add_mapping_at"} /\ result.kind = "Ok") =>
    LET a == IF op.name = "add_mapping" THEN result.addr ELSE op.start
        e == [source |-> op.source, offset |-> op.offset,
              span |-> op.span, addr |-> a]
    IN \E i \in DOMAIN mappings : mappings[i] = e /\ Without(mappings, i) = pre

\* an add_mapping_at spliced its entry in front of an existing one
C12_Witness ==
  /\ op.name = "add_mapping_at"
  /\ result.kind = "Ok"
  /\ Len(pre) >= 1
  /\ Len(mappings) = Len(pre) + 1
  /\ mappings[1].addr = op.start
  /\ mappings[1].span = op.span

\* C13: a call of add_mapping, add_mapping_at or remove_mapping that
\* returns an error leaves the mappings as they were before the call.
C13_AtomicOnFailure ==
  (/\ op.name \in {"add_mapping", "add_mapping_at", "remove_mapping"}
   /\ result.kind = "Err")
  => mappings = pre

\* a remove_mapping failed on a non-empty address space
C13_Witness ==
  /\ op.name = "remove_mapping"
  /\ result.kind = "Err"
  /\ Len(pre) >= 2
  /\ mappings = pre

\* C18: remove_mapping removes the entry with addr == start whatever source
\* is passed, also when the entry was created with a different source.
C18_SourceNotChecked ==
  (/\ op.name = "remove_mapping"
   /\ StartsAt /= {}
   /\ \A i \in StartsAt : pre[i].source /= op.source)
  => /\ result.kind = "Ok"
     /\ \E i \in StartsAt : mappings = Without(pre, i)

\* an entry was removed by a call that passed another source
C18_Witness ==
  /\ op.name = "remove_mapping"
  /\ result.kind = "Ok"
  /\ \E i \in StartsAt : pre[i].source /= op.source /\ mappings = Without(pre, i)

\* C14: no call panics or aborts: every call returns a success or an error
\* value, for every representable input.
C14_Totality == result.kind \in {"None", "Ok", "Err"}

\* C15: add_mapping_at reports a collision with an existing mapping with an
\* error value distinct from the one it reports an address-range overflow
\* with (ErrNoSpace, the value of the overflow guard at line 69), so the
\* caller can tell the two conditions apart.
C15_ErrorTaxonomy ==
  (/\ op.name = "add_mapping_at"
   /\ result.kind = "Err"
   /\ ~Overflows(op.start, op.span)
   /\ \E i \in DOMAIN pre : Intersects(Requested, pre[i]))
  => result.err /= ErrNoSpace

\* every entry of m ends inside the address range and is separated from the
\* next one by at least one unmapped address
Gapped(m) ==
  /\ \A i \in DOMAIN m : ~Overflows(m[i].addr, m[i].span)
  /\ \A i \in 1..(Len(m) - 1) : m[i].addr + m[i].span < m[i + 1].addr

\* the start that add_mapping with this span hands to add_mapping_at on m
SpotOf(m, span) == fold_spot(m, 1, 0, span, FALSE)

\* call o on mappings m makes a request whose start+span is above the
\* maximum address
RequestOverflows(m, o) ==
  \/ o.name = "add_mapping_at" /\ Overflows(o.start, o.span)
  \/ o.name = "add_mapping" /\ Overflows(SpotOf(m, o.span).spot, o.span)

\* C19: as long as no request has start+span above the maximum address,
\* consecutive entries are separated by at least one unmapped address
\* (previous addr+span < next addr).  Stated as the induction step from the
\* empty address space: a call whose request does not overflow takes
\* gapped mappings to gapped mappings.
C19_GapInvariant ==
  [][(Gapped(mappings) /\ ~RequestOverflows(mappings, op')) => Gapped(mappings')]_vars

\* an insert without overflow left two entries exactly one address apart
C19_Witness ==
  /\ op.name = "add_mapping_at"
  /\ result.kind = "Ok"
  /\ ~Overflows(op.start, op.span)
  /\ Gapped(pre)
  /\ Len(mappings) >= 2
  /\ \E i \in 1..(Len(mappings) - 1) :
        mappings[i].addr + mappings[i].span + 1 = mappings[i + 1].addr

\* C20: as long as no address sum overflows, add_mapping succeeds only on an
\* empty address space or one whose first entry starts above span, returns
\* address 0 when it succeeds, and returns an error in every other state.
C20_AddMappingOnlyAtZero ==
  (/\ op.name = "add_mapping"
   /\ Gapped(pre)
   /\ ~SpotOf(pre, op.span).ovf
   /\ ~RequestOverflows(pre, op))
  => LET free == pre = << >> \/ pre[1].addr > op.span
     IN /\ result.kind = "Ok" => (free /\ result.addr = 0)
        /\ ~free => result.kind = "Err"

\* add_mapping failed although a gap of the requested span exists
C20_Witness ==
  /\ op.name = "add_mapping"
  /\ Gapped(pre)
  /\ ~RequestOverflows(pre, op)
  /\ op.span > 0
  /\ result.kind = "Err"
  /\ \E a \in VirtualAddress : Fits(pre, a, op.span)

\* C16: and is the field-wise OR of the six flags, hence commutative and
\* idempotent, and F1().and(F2()) of two single-flag constructors equals
\* new() with those two flags toggled on.
C16_AndIsUnion ==
  flags_op.name = "and" =>
    /\ \A f \in FlagNames : flags_out[f] = (flags_self[f] \/ flags_other[f])
    /\ flags_out = FlagBuilder_and(flags_other, flags_self)
    /\ flags_self = flags_other => flags_out = flags_self
    /\ \A f1, f2 \in FlagNames :
         (f1 /= f2 /\ flags_self = flag(f1) /\ flags_other = flag(f2))
         => flags_out = toggle(toggle(FlagBuilder_new, f1), f2)

\* read().and(execute()) was computed and equals
\* new().toggle_read().toggle_execute()
C16_Witness ==
  /\ flags_op.name = "and"
  /\ flags_self = FlagBuilder_read
  /\ flags_other = FlagBuilder_execute
  /\ flags_out = toggle(toggle(FlagBuilder_new, "read"), "execute")

\* C17: but_not is the field-wise AND-NOT of the six flags, hence
\* x.and(y).but_not(y) == x.but_not(y), and
\* read().toggle_execute().but_not(execute()) == new().toggle_read().
C17_ButNotIsDifference ==
  flags_op.name = "but_not" =>
    /\ \A f \in FlagNames : flags_out[f] = (flags_self[f] /\ ~flags_other[f])
    /\ FlagBuilder_but_not(FlagBuilder_and(flags_self, flags_other), flags_other)
         = flags_out
    /\ (/\ flags_self = toggle(flag("read"), "execute")
        /\ flags_other = flag("execute"))
       => flags_out = toggle(FlagBuilder_new, "read")

\* read().toggle_execute().but_not(execute()) was computed and equals
\* new().toggle_read()
C17_Witness ==
  /\ flags_op.name = "but_not"
  /\ flags_self = toggle(flag("read"), "execute")
  /\ flags_other = flag("execute")
  /\ flags_out = toggle(FlagBuilder_new, "read")

====
